---- MODULE Spec2Model ----
(***************************************************************************)
(* Pattern selection and static-key cache of the Noise secure channel:     *)
(* Noise.secureOutbound / secureInbound / performHandshake and its three   *)
(* drivers (src/src/noise.ts) over the process-wide Keycache               *)
(* (src/unnamed/part_002).                                                 *)
(*                                                                         *)
(* The handshake classes themselves (handshake-xx, handshake-ik,           *)
(* handshake-xx-fallback) are imported by noise.ts but are not among the   *)
(* sources; the outcome of their phases is modelled from spec.md (4.5,     *)
(* 4.6, 4.7) and every such definition is marked below.                    *)
(***************************************************************************)
EXTENDS Integers, Sequences, FiniteSets, TLC

\* Number of handshake calls (secureOutbound / secureInbound) that can be in
\* flight at the same time in the process.
MaxCalls == 1

Calls == 1..MaxCalls

\* Peer identities.  Peer A is the peer the callers mean to reach; B is another
\* peer that may turn out to sit at the other end of the connection.
Peers == {"A", "B"}

\* The PeerId objects the callers hold, both of peer A.  Keycache keys its Map
\* by peerId.id, a Buffer, and a JavaScript Map compares object keys by
\* reference: the ids of two PeerId objects of one peer are two distinct keys.
PeerIds == {"a1", "a2"}

\* The identity a PeerId object denotes (the bytes of its id).
PeerOf(p) == IF p \in PeerIds THEN "A" ELSE "nobody"

\* secureInbound's remotePeer is optional ("if known"): undefined.
NoPeer == "undefined"

\* Noise static public keys (bytes32), and the undefined of a Map miss.
Keys == {"kA", "kB"}

NoKey == "nokey"

\* The Noise static public key the peer at the other end really uses.
StaticOf(peer) == IF peer = "A" THEN "kA" ELSE "kB"

VARIABLES
    cache,       \* Keycache.storage: PeerId.id buffer -> key, NoKey when absent
    pc,          \* per call: position in secureX / performHandshake / drivers
    params,      \* per call: HandshakeParams and the instance's useNoisePipes
    actual,      \* per call: the identity of the peer at the other end
    found,       \* per call: performHandshake's local foundRemoteStaticKey
    attempts,    \* per call: the handshake objects constructed, with status
    cacheReads,  \* per call: number of storage.get executed for it
    result,      \* per call: what secureOutbound / secureInbound gave the caller
    xxSince,     \* PeerId objects an XX handshake stored since the last reset
    resetDone,   \* resetStorage was called and nothing has been stored since
    metrics,     \* the five counters of the metrics registry (increment calls)
    sent,        \* per call: plaintext packets written to its secured duplex
    log,         \* the store / load / resetStorage operations applied to the cache
    written,     \* secured duplex: the chunks the user wrote, in order
    network,     \* secured duplex: what is in flight to the remote peer
    delivered,   \* secured duplex: the plaintext the peer's pipeline produced
    sendNonce,   \* secured duplex: nonce of the sender's CipherState
    recvNonce,   \* secured duplex: nonce of the receiver's CipherState
    terminated,  \* secured duplex: the inbound pipeline threw
    setup,       \* one duplex, two ends: what each end knows and is
    sides,       \* one duplex, two ends: position, attempts and held bytes
    wire         \* one duplex, two ends: frames in flight towards each end

streamVars == <<written, network, delivered, sendNonce, recvNonce, terminated>>

pairVars == <<setup, sides, wire>>

\* What the handshake calls never touch.
others == <<metrics, sent, log, streamVars, pairVars>>

vars == <<cache, pc, params, actual, found, attempts, cacheReads, result, xxSince,
          resetDone, others>>

callVars == <<pc, params, actual, found, attempts, cacheReads, result>>

handshakeVars == <<cache, callVars, xxSince, resetDone>>

\* The two ends of one duplex.
Sides == {"initiator", "responder"}

NoParams == [isInitiator |-> FALSE, remotePeer |-> NoPeer, useNoisePipes |-> FALSE]

NoResult == [status |-> "pending", conn |-> FALSE, remotePeer |-> NoPeer]

Thrown == [status |-> "error", conn |-> FALSE, remotePeer |-> NoPeer]

EmptyStorage == [b \in PeerIds |-> NoKey]

\* The counters the test 'should collect metrics' registers, none incremented.
NoMetrics ==
    [xxHandshakeSuccesses |-> 0, xxHandshakeErrors |-> 0, encryptedPackets |-> 0,
     decryptedPackets |-> 0, decryptErrors |-> 0]

\* One end of a duplex before its secureOutbound / secureInbound.
NoSide == [pc |-> "start", attempts |-> <<>>,
           held |-> [type |-> "undefined", to |-> NoKey, identity |-> "nobody"]]

\* The two ends when nothing is known of them.
NoSetup ==
    [cached |-> NoKey, static |-> "kA", identity |-> "A", responderFound |-> NoKey,
     initiatorExpected |-> TRUE]

\* A fresh process: empty cache, no call in flight, nothing on any duplex.
Fresh ==
    /\ cache = EmptyStorage
    /\ pc = [c \in Calls |-> "idle"]
    /\ params = [c \in Calls |-> NoParams]
    /\ actual = [c \in Calls |-> "A"]
    /\ found = [c \in Calls |-> NoKey]
    /\ attempts = [c \in Calls |-> <<>>]
    /\ cacheReads = [c \in Calls |-> 0]
    /\ result = [c \in Calls |-> NoResult]
    /\ xxSince = {}
    /\ resetDone = FALSE
    /\ metrics = NoMetrics
    /\ sent = [c \in Calls |-> 0]
    /\ log = <<>>
    /\ written = <<>>
    /\ network = <<>>
    /\ delivered = <<>>
    /\ sendNonce = 0
    /\ recvNonce = 0
    /\ terminated = FALSE
    /\ sides = [s \in Sides |-> NoSide]
    /\ wire = [s \in Sides |-> <<>>]

Init ==
    /\ Fresh
    /\ setup = NoSetup

----------------------------------------------------------------------------
\* Keycache (src/unnamed/part_002)

\* Keycache.store: this.storage.set(peerId.id, key)
StoreIn(storage, peerId, key) == [storage EXCEPT ![peerId] = key]

\* Keycache.load: this.storage.get(peerId.id)
LoadFrom(storage, peerId) == storage[peerId]

\* KeyCache.store called directly (the object is exported; callers prime it).
Store(p, k) ==
    /\ cache[p] # k
    /\ cache' = StoreIn(cache, p, k)
    /\ resetDone' = FALSE
    /\ UNCHANGED <<callVars, xxSince, others>>

\* Variant: resetStorage leaves the entries in place.
ResetStorageKeepingEntries ==
    /\ ~resetDone
    /\ cache' = cache
    /\ xxSince' = {}
    /\ resetDone' = TRUE
    /\ UNCHANGED <<callVars, others>>

\* KeyCache.resetStorage: this.storage.clear()
ResetStorage ==
    /\ ~resetDone
    /\ cache' = EmptyStorage
    /\ xxSince' = {}
    /\ resetDone' = TRUE
    /\ UNCHANGED <<callVars, others>>

----------------------------------------------------------------------------
\* Noise.secureOutbound / Noise.secureInbound: entry

Begin(c, isInit, remote, pipes, peer) ==
    /\ pc' = [pc EXCEPT ![c] = "performHandshake"]
    /\ params' = [params EXCEPT ![c] =
                    [isInitiator |-> isInit, remotePeer |-> remote, useNoisePipes |-> pipes]]
    /\ actual' = [actual EXCEPT ![c] = peer]
    /\ UNCHANGED <<cache, found, attempts, cacheReads, result, xxSince, resetDone, others>>

\* secureOutbound(localPeer, connection, remotePeer): isInitiator: true
SecureOutbound(c) ==
    /\ pc[c] = "idle"
    /\ \E remote \in PeerIds, pipes \in BOOLEAN, peer \in Peers :
          Begin(c, TRUE, remote, pipes, peer)

\* secureInbound(localPeer, connection, remotePeer): isInitiator: false;
\* remotePeer may be undefined.
SecureInbound(c) ==
    /\ pc[c] = "idle"
    /\ \E remote \in PeerIds \cup {NoPeer}, pipes \in BOOLEAN, peer \in Peers :
          Begin(c, FALSE, remote, pipes, peer)

----------------------------------------------------------------------------
\* Handshake attempts of a call

\* const wrappedConnection = Wrap(connection): one wrapped duplex per call,
\* handed to every handshake object of the call.
ConnectionOf(c) == c

\* No bytes (e.initialMsg of an error that carries none).
NoMsg == "undefined"

\* ephemeralKeys left undefined.
NoEphemeral == [owner |-> "none", attempt |-> 0]

\* A handshake object as constructed: its pattern, the connection it drives,
\* and (XXFallbackHandshake only) the initialMsg and ephemeralKeys arguments.
Attempt(c, pattern) ==
    [pattern |-> pattern, status |-> "running", connection |-> ConnectionOf(c),
     initialMsg |-> NoMsg, ephemeralKeys |-> NoEphemeral]

Current(c) == attempts[c][Len(attempts[c])]

\* The running (last) attempt of call c ends with status st.
Ended(c, st) == [attempts[c] EXCEPT ![Len(attempts[c])].status = st]

Patterns(c) == [i \in 1..Len(attempts[c]) |-> attempts[c][i].pattern]

\* An exception leaves performHandshake and therefore secureOutbound /
\* secureInbound, which await it without a try block.
Throw(c) ==
    /\ pc' = [pc EXCEPT ![c] = "failed"]
    /\ result' = [result EXCEPT ![c] = Thrown]

----------------------------------------------------------------------------
\* What the missing handshake classes do, from spec.md

\* The identity the remote payload's signature authenticates (4.5).
AuthenticatedPeer(c) == actual[c]

\* handshake.getRemoteStaticKey(): rs of the handshake state (4.6 step 4).
RemoteStaticKey(c) == StaticOf(actual[c])

\* The phase in which a side reads the frame carrying the remote payload
\* (4.6 step 3): XX and XXfallback message 2 for the initiator, message 3 for
\* the responder; IK message 2 for the initiator, message 1 for the responder.
ReadsPayload(pattern, isInitiator, phase) ==
    IF pattern = "IK"
    THEN phase = (IF isInitiator THEN "stage1" ELSE "stage0")
    ELSE phase = (IF isInitiator THEN "exchange" ELSE "finish")

\* identityKey must correspond to the expected remotePeer; mismatch is fatal
\* (4.5).
PayloadVerifies(c) == PeerOf(params[c].remotePeer) = AuthenticatedPeer(c)

\* The phase of an XXfallback handshake that works on the bytes taken over from
\* the IK attempt (4.7): the responder takes the initiator's ephemeral from
\* them when it starts, the initiator processes them as XX message 2.
UsesInitialMsg(isInitiator, phase) ==
    phase = (IF isInitiator THEN "exchange" ELSE "propose")

\* A phase may always fail (I/O, decryption); it can only succeed when the
\* payload it reads verifies, for the initiator's IK message 2 when the
\* responder could decrypt message 1, i.e. it was sealed to its real static
\* key (4.7), and for the XXfallback phase that works on the initial message
\* when there is one.
PhaseCanSucceed(c, pattern, phase) ==
    /\ ReadsPayload(pattern, params[c].isInitiator, phase) => PayloadVerifies(c)
    /\ (pattern = "IK" /\ params[c].isInitiator /\ phase = "stage1")
          => found[c] = RemoteStaticKey(c)
    /\ (pattern = "XXfallback" /\ UsesInitialMsg(params[c].isInitiator, phase))
          => (Len(attempts[c]) > 0 /\ Current(c).initialMsg # NoMsg)

\* The frame an IK phase reads from the duplex: message 1 for the responder
\* (stage0), the reply for the initiator (stage1) (4.4, 4.6).
FrameRead(isInitiator) == IF isInitiator THEN "ik_reply" ELSE "ik_message_1"

\* The errors a failing IK phase can raise, each with its initialMsg property:
\* an error of the duplex or of a write carries none; a failure to process the
\* frame the phase has read (decryption, payload verification) carries that
\* frame (4.7, design note on the stashed initialMsg).
IKErrors(isInitiator, phase) ==
    {[initialMsg |-> NoMsg]} \cup
    (IF ReadsPayload("IK", isInitiator, phase)
     THEN {[initialMsg |-> FrameRead(isInitiator)]}
     ELSE {})

\* IKhandshake.getRemoteEphemeralKeys(): the handshake state's own ephemeral
\* keypair e, generated for the IK attempt (the first attempt of the call).
GetRemoteEphemeralKeys(c) == [owner |-> "local", attempt |-> 1]

----------------------------------------------------------------------------
\* Noise.performHandshake: pattern selection (noise.ts 108-142)

\* Variant: the configuration flag is not consulted.
TryIKIgnoringConfig(useNoisePipes, isInitiator, foundRemoteStaticKey) ==
    ~(isInitiator /\ foundRemoteStaticKey = NoKey)

\* Variant: the initiator's cache miss does not clear tryIK.
TryIKWithoutMissCheck(useNoisePipes, isInitiator, foundRemoteStaticKey) ==
    useNoisePipes

\* let tryIK = this.useNoisePipes;
\* if (tryIK && params.isInitiator && !foundRemoteStaticKey) tryIK = false;
TryIK(useNoisePipes, isInitiator, foundRemoteStaticKey) ==
    IF useNoisePipes /\ isInitiator /\ foundRemoteStaticKey = NoKey
    THEN FALSE
    ELSE useNoisePipes

\* if (!foundRemoteStaticKey) throw new Error("Remote static key should be
\* initialized.")  -- inside if (tryIK), before the IKHandshake is built.
StaticKeyMissing(foundRemoteStaticKey) == foundRemoteStaticKey = NoKey

\* The payload (getPayload, line 109) is built first and is taken to succeed;
\* the lookup of line 112 and the selection that follows read only locals, so
\* they are one step.
PerformHandshake(c) ==
    /\ pc[c] = "performHandshake"
    /\ IF params[c].remotePeer = NoPeer
       THEN \* KeyCache.load(undefined): peerId.id is a TypeError
            /\ Throw(c)
            /\ UNCHANGED <<found, attempts, cacheReads>>
       ELSE LET f == LoadFrom(cache, params[c].remotePeer) IN
            /\ found' = [found EXCEPT ![c] = f]
            /\ cacheReads' = [cacheReads EXCEPT ![c] = @ + 1]
            /\ IF TryIK(params[c].useNoisePipes, params[c].isInitiator, f)
               THEN IF StaticKeyMissing(f)
                    THEN /\ Throw(c)
                         /\ UNCHANGED attempts
                    ELSE /\ attempts' = [attempts EXCEPT ![c] = <<Attempt(c, "IK")>>]
                         /\ pc' = [pc EXCEPT ![c] = "ik_stage0"]
                         /\ UNCHANGED result
               ELSE /\ attempts' = [attempts EXCEPT ![c] = <<Attempt(c, "XX")>>]
                    /\ pc' = [pc EXCEPT ![c] = "xx_propose"]
                    /\ UNCHANGED result
    /\ UNCHANGED <<cache, params, actual, xxSince, resetDone, others>>

----------------------------------------------------------------------------
\* Noise.performIKHandshake (noise.ts 188-196) and the catch of 130-137

Advance(c, from, to) ==
    /\ pc[c] = from
    /\ pc' = [pc EXCEPT ![c] = to]
    /\ UNCHANGED <<cache, params, actual, found, attempts, cacheReads, result, xxSince, resetDone, others>>

\* The driver returns its handshake object to performHandshake's caller.
Completed(c, from) ==
    /\ pc[c] = from
    /\ pc' = [pc EXCEPT ![c] = "handshake_done"]
    /\ attempts' = [attempts EXCEPT ![c] = Ended(c, "ok")]
    /\ UNCHANGED <<params, actual, found, cacheReads, result>>

IKStage0(c) ==
    /\ PhaseCanSucceed(c, "IK", "stage0")
    /\ Advance(c, "ik_stage0", "ik_stage1")

IKStage1(c) ==
    /\ PhaseCanSucceed(c, "IK", "stage1")
    /\ Completed(c, "ik_stage1")
    /\ UNCHANGED <<cache, xxSince, resetDone, others>>

\* Variant: the role is not looked at.
FallbackEphemeralForBoth(isInitiator, ikEphemeral) == ikEphemeral

\* let ephemeralKeys;
\* if (params.isInitiator) ephemeralKeys = IKhandshake.getRemoteEphemeralKeys();
FallbackEphemeral(isInitiator, ikEphemeral) ==
    IF isInitiator THEN ikEphemeral ELSE NoEphemeral

\* new XXFallbackHandshake(isInitiator, payload, prologue, staticKeys,
\*                         connection, remotePeer, initialMsg, ephemeralKeys)
FallbackAttempt(c, initialMsg, ephemeralKeys) ==
    [Attempt(c, "XXfallback") EXCEPT !.initialMsg = initialMsg,
                                     !.ephemeralKeys = ephemeralKeys]

IKPhase(c) == IF pc[c] = "ik_stage0" THEN "stage0" ELSE "stage1"

\* Variant: the fallback is started while the IK attempt is still running.
IKFailedStillRunning(c) ==
    /\ pc[c] \in {"ik_stage0", "ik_stage1"}
    /\ \E e \in IKErrors(params[c].isInitiator, IKPhase(c)) :
          attempts' = [attempts EXCEPT ![c] =
              Append(attempts[c],
                     FallbackAttempt(c, e.initialMsg,
                         FallbackEphemeral(params[c].isInitiator,
                                           GetRemoteEphemeralKeys(c))))]
    /\ pc' = [pc EXCEPT ![c] = "fb_propose"]
    /\ UNCHANGED <<cache, params, actual, found, cacheReads, result, xxSince, resetDone, others>>

\* catch (e): "IK failed, go to XX fallback": the XXFallbackHandshake is built
\* from e.initialMsg and the ephemeral keys, and its driver entered.
IKFailed(c) ==
    /\ pc[c] \in {"ik_stage0", "ik_stage1"}
    /\ \E e \in IKErrors(params[c].isInitiator, IKPhase(c)) :
          attempts' = [attempts EXCEPT ![c] =
              Append(Ended(c, "failed"),
                     FallbackAttempt(c, e.initialMsg,
                         FallbackEphemeral(params[c].isInitiator,
                                           GetRemoteEphemeralKeys(c))))]
    /\ pc' = [pc EXCEPT ![c] = "fb_propose"]
    /\ UNCHANGED <<cache, params, actual, found, cacheReads, result, xxSince, resetDone, others>>

----------------------------------------------------------------------------
\* Noise.performXXFallbackHandshake (noise.ts 144-164)

FBPropose(c) ==
    /\ PhaseCanSucceed(c, "XXfallback", "propose")
    /\ Advance(c, "fb_propose", "fb_exchange")

FBExchange(c) ==
    /\ PhaseCanSucceed(c, "XXfallback", "exchange")
    /\ Advance(c, "fb_exchange", "fb_finish")

\* Variant: the fallback driver stores the remote static key like the XX one.
FBFinishStoring(c) ==
    /\ PhaseCanSucceed(c, "XXfallback", "finish")
    /\ Completed(c, "fb_finish")
    /\ cache' = StoreIn(cache, params[c].remotePeer, RemoteStaticKey(c))
    /\ UNCHANGED <<xxSince, resetDone, others>>

FBFinish(c) ==
    /\ PhaseCanSucceed(c, "XXfallback", "finish")
    /\ Completed(c, "fb_finish")
    /\ UNCHANGED <<cache, xxSince, resetDone, others>>

\* Variant: the catch block logs the error and falls through to the return.
FBFailedSwallowed(c) ==
    /\ pc[c] \in {"fb_propose", "fb_exchange", "fb_finish"}
    /\ attempts' = [attempts EXCEPT ![c] = Ended(c, "failed")]
    /\ pc' = [pc EXCEPT ![c] = "handshake_done"]
    /\ UNCHANGED <<cache, params, actual, found, cacheReads, result, xxSince, resetDone, others>>

\* Variant: a failed fallback is followed by a plain XX attempt.
FBFailedRetryXX(c) ==
    /\ pc[c] \in {"fb_propose", "fb_exchange", "fb_finish"}
    /\ attempts' = [attempts EXCEPT ![c] = Append(Ended(c, "failed"), Attempt(c, "XX"))]
    /\ pc' = [pc EXCEPT ![c] = "xx_propose"]
    /\ UNCHANGED <<cache, params, actual, found, cacheReads, result, xxSince, resetDone, others>>

\* catch (e): throw new Error("Error occurred during XX Fallback handshake")
FBFailed(c) ==
    /\ pc[c] \in {"fb_propose", "fb_exchange", "fb_finish"}
    /\ attempts' = [attempts EXCEPT ![c] = Ended(c, "failed")]
    /\ Throw(c)
    /\ UNCHANGED <<cache, params, actual, found, cacheReads, xxSince, resetDone, others>>

----------------------------------------------------------------------------
\* Noise.performXXHandshake (noise.ts 166-186)

\* Variant: exchange() is not awaited before finish().
XXProposeSkippingExchange(c) ==
    /\ PhaseCanSucceed(c, "XX", "propose")
    /\ Advance(c, "xx_propose", "xx_finish")

XXPropose(c) ==
    /\ PhaseCanSucceed(c, "XX", "propose")
    /\ Advance(c, "xx_propose", "xx_exchange")

XXExchange(c) ==
    /\ PhaseCanSucceed(c, "XX", "exchange")
    /\ Advance(c, "xx_exchange", "xx_finish")

\* Variant: the local static public key is stored instead of the remote one.
StoreAfterXXOwnKey(c) ==
    IF params[c].useNoisePipes
    THEN /\ cache' = StoreIn(cache, params[c].remotePeer, "kLocal")
         /\ xxSince' = xxSince \cup {params[c].remotePeer}
         /\ resetDone' = FALSE
         /\ UNCHANGED others
    ELSE UNCHANGED <<cache, xxSince, resetDone, others>>

\* Variant: the key is stored whatever useNoisePipes is.
StoreAfterXXAlways(c) ==
    /\ cache' = StoreIn(cache, params[c].remotePeer, RemoteStaticKey(c))
    /\ xxSince' = xxSince \cup {params[c].remotePeer}
    /\ resetDone' = FALSE
    /\ UNCHANGED others

\* if (this.useNoisePipes) await KeyCache.store(remotePeer,
\*                                             handshake.getRemoteStaticKey());
StoreAfterXX(c) ==
    IF params[c].useNoisePipes
    THEN /\ cache' = StoreIn(cache, params[c].remotePeer, RemoteStaticKey(c))
         /\ xxSince' = xxSince \cup {params[c].remotePeer}
         /\ resetDone' = FALSE
         /\ UNCHANGED others
    ELSE UNCHANGED <<cache, xxSince, resetDone, others>>

XXFinish(c) ==
    /\ PhaseCanSucceed(c, "XX", "finish")
    /\ Completed(c, "xx_finish")
    /\ StoreAfterXX(c)

\* Variant: the catch block does not rethrow; the handshake object is returned.
XXFailedSwallowed(c) ==
    /\ pc[c] \in {"xx_propose", "xx_exchange", "xx_finish"}
    /\ attempts' = [attempts EXCEPT ![c] = Ended(c, "failed")]
    /\ pc' = [pc EXCEPT ![c] = "handshake_done"]
    /\ UNCHANGED <<cache, params, actual, found, cacheReads, result, xxSince, resetDone, others>>

\* catch (e): throw new Error("Error occurred during XX handshake")
XXFailed(c) ==
    /\ pc[c] \in {"xx_propose", "xx_exchange", "xx_finish"}
    /\ attempts' = [attempts EXCEPT ![c] = Ended(c, "failed")]
    /\ Throw(c)
    /\ UNCHANGED <<cache, params, actual, found, cacheReads, xxSince, resetDone, others>>

----------------------------------------------------------------------------
\* Noise.createSecureConnection and the return of secureOutbound /
\* secureInbound (noise.ts 69-74, 92-97, 198-219)

SecureReturn(c) ==
    /\ pc[c] = "handshake_done"
    /\ pc' = [pc EXCEPT ![c] = "returned"]
    /\ result' = [result EXCEPT ![c] =
                    [status |-> "ok", conn |-> TRUE, remotePeer |-> params[c].remotePeer]]
    /\ UNCHANGED <<cache, params, actual, found, attempts, cacheReads, xxSince, resetDone, others>>

\* The caller is done with the call; the slot serves the next call.
Release(c) ==
    /\ pc[c] \in {"returned", "failed"}
    /\ pc' = [pc EXCEPT ![c] = "idle"]
    /\ params' = [params EXCEPT ![c] = NoParams]
    /\ actual' = [actual EXCEPT ![c] = "A"]
    /\ found' = [found EXCEPT ![c] = NoKey]
    /\ attempts' = [attempts EXCEPT ![c] = <<>>]
    /\ cacheReads' = [cacheReads EXCEPT ![c] = 0]
    /\ result' = [result EXCEPT ![c] = NoResult]
    /\ UNCHANGED <<cache, xxSince, resetDone, others>>

\* One step of a secureOutbound / secureInbound call.
CallStep(c) ==
    \/ SecureOutbound(c)
    \/ SecureInbound(c)
    \/ PerformHandshake(c)
    \/ IKStage0(c)
    \/ IKStage1(c)
    \/ IKFailed(c)
    \/ FBPropose(c)
    \/ FBExchange(c)
    \/ FBFinish(c)
    \/ FBFailed(c)
    \/ XXPropose(c)
    \/ XXExchange(c)
    \/ XXFinish(c)
    \/ XXFailed(c)
    \/ SecureReturn(c)

----------------------------------------------------------------------------
Next ==
    \/ \E p \in PeerIds, k \in Keys : Store(p, k)
    \/ ResetStorage
    \/ \E c \in Calls : CallStep(c) \/ Release(c)

Spec == Init /\ [][Next]_vars

----------------------------------------------------------------------------
\* The key cache on its own: any sequence of store, load and resetStorage.

MaxOps == 4

\* Keycache.store(peerId, key)
KCStore(p, k) ==
    /\ Len(log) < MaxOps
    /\ cache' = StoreIn(cache, p, k)
    /\ log' = Append(log, [op |-> "store", peerId |-> p, key |-> k])
    /\ UNCHANGED <<callVars, xxSince, resetDone, metrics, sent, streamVars, pairVars>>

\* Keycache.load(peerId); the log keeps what it returned
KCLoad(p) ==
    /\ Len(log) < MaxOps
    /\ log' = Append(log, [op |-> "load", peerId |-> p, key |-> LoadFrom(cache, p)])
    /\ UNCHANGED <<handshakeVars, metrics, sent, streamVars, pairVars>>

\* Keycache.resetStorage()
KCReset ==
    /\ Len(log) < MaxOps
    /\ cache' = EmptyStorage
    /\ log' = Append(log, [op |-> "reset", peerId |-> NoPeer, key |-> NoKey])
    /\ UNCHANGED <<callVars, xxSince, resetDone, metrics, sent, streamVars, pairVars>>

NextCache ==
    \/ \E p \in PeerIds, k \in Keys : KCStore(p, k)
    \/ \E p \in PeerIds : KCLoad(p)
    \/ KCReset

SpecCache == Init /\ [][NextCache]_vars

----------------------------------------------------------------------------
\* Metrics: one Noise instance given a metrics registry, its calls, and the
\* packets written to the secured duplexes it returned.

MaxPackets == 2

\* A plaintext packet goes through encryptStream of createSecureConnection.
SendPacket(c) ==
    /\ pc[c] = "returned"
    /\ sent[c] < MaxPackets
    /\ sent' = [sent EXCEPT ![c] = sent[c] + 1]
    /\ UNCHANGED <<handshakeVars, metrics, log, streamVars, pairVars>>

NextMetrics ==
    \/ \E p \in PeerIds, k \in Keys : Store(p, k)
    \/ \E c \in Calls : CallStep(c)
    \/ \E c \in Calls : SendPacket(c)

SpecMetrics == Init /\ [][NextMetrics]_vars

----------------------------------------------------------------------------
\* The secured duplex of createSecureConnection, one direction: what the user
\* writes at one end, the network, and what the peer's pipeline produces.

MaxChunks == 3

\* The largest plaintext unit and the AEAD tag: 65519 + 16 = 2^16 - 1.
MaxPlaintextLength == 65519

TagLength == 16

ChunkSizes == {1, MaxPlaintextLength, MaxPlaintextLength + 1}

ChunkKinds == {"Buffer", "BufferList"}

\* ensureBuffer: whatever was written becomes one Buffer of the same bytes
EnsureBuffer(chunk) == [kind |-> "Buffer", size |-> chunk.size]

\* The plaintext units chunk i is cut into, from offset off.
RECURSIVE Units(_, _, _)
Units(i, off, size) ==
    IF size - off <= MaxPlaintextLength
    THEN <<[chunk |-> i, off |-> off, len |-> size - off]>>
    ELSE <<[chunk |-> i, off |-> off, len |-> MaxPlaintextLength]>>
         \o Units(i, off + MaxPlaintextLength, size)

\* AEAD seal of one unit under the send CipherState's nonce
Seal(unit, nonce) ==
    [type |-> "ciphertext", nonce |-> nonce, unit |-> unit, len |-> unit.len + TagLength]

\* encryptStream(handshake): every unit sealed, the nonce advancing by one
EncryptStream(i, chunk, nonce) ==
    LET u == Units(i, 0, chunk.size)
    IN  [n \in 1..Len(u) |-> Seal(u[n], nonce + n - 1)]

\* uint16BEEncode: the length in two bytes
Uint16BEEncode(n) == n % 65536

\* lp.encode({lengthEncoder: uint16BEEncode}): each frame after its length
RECURSIVE LpEncode(_)
LpEncode(frames) ==
    IF frames = <<>> THEN <<>>
    ELSE <<[type |-> "length", len |-> Uint16BEEncode(Head(frames).len)], Head(frames)>>
         \o LpEncode(Tail(frames))

\* lp.decode({lengthDecoder: uint16BEDecode}): the next frame off the network
LpDecode(net) ==
    IF /\ Len(net) >= 2
       /\ net[1].type = "length"
       /\ net[2].type = "ciphertext"
       /\ net[1].len = net[2].len
    THEN [ok |-> TRUE, frame |-> net[2], rest |-> SubSeq(net, 3, Len(net))]
    ELSE [ok |-> FALSE, frame |-> net[1], rest |-> <<>>]

\* Variant: the frames go to the network without their length prefix.
OutboundWithoutLpEncode(i, chunk, nonce) == EncryptStream(i, EnsureBuffer(chunk), nonce)

\* pipe(secure, ensureBuffer, encryptStream(handshake), lp.encode(...), network
Outbound(i, chunk, nonce) == LpEncode(EncryptStream(i, EnsureBuffer(chunk), nonce))

\* The user writes one chunk to the secured duplex.
Write(chunk) ==
    /\ ~terminated
    /\ Len(written) < MaxChunks
    /\ written' = Append(written, chunk)
    /\ network' = network \o Outbound(Len(written) + 1, chunk, sendNonce)
    /\ sendNonce' = sendNonce + Len(Units(Len(written) + 1, 0, chunk.size))
    /\ UNCHANGED <<delivered, recvNonce, terminated>>
    /\ UNCHANGED <<handshakeVars, metrics, sent, log, pairVars>>

\* network, lp.decode(...), ensureBuffer, decryptStream(handshake), secure): the
\* peer's pipeline takes one frame; a frame that does not open ends the stream.
Receive ==
    /\ ~terminated
    /\ network # <<>>
    /\ LET d == LpDecode(network)
       IN  IF d.ok /\ d.frame.nonce = recvNonce
           THEN /\ delivered' = Append(delivered, d.frame.unit)
                /\ recvNonce' = recvNonce + 1
                /\ network' = d.rest
                /\ UNCHANGED terminated
           ELSE /\ terminated' = TRUE
                /\ network' = <<>>
                /\ UNCHANGED <<delivered, recvNonce>>
    /\ UNCHANGED <<written, sendNonce>>
    /\ UNCHANGED <<handshakeVars, metrics, sent, log, pairVars>>

NextStream ==
    \/ \E k \in ChunkKinds, n \in ChunkSizes : Write([kind |-> k, size |-> n])
    \/ Receive

SpecStream == Init /\ [][NextStream]_vars

----------------------------------------------------------------------------
\* One duplex with secureOutbound at one end and secureInbound at the other,
\* both on instances with useNoisePipes = true; the duplex is reliable.

\* The peer the initiator dials (its remotePeer argument).
DialedPeer == "A"

\* What the two ends can know and be: the key the initiator's cache holds for
\* the PeerId it dials, the static key and identity of the responder, what the
\* responder's cache holds for its remotePeer, and whether the initiator is
\* the peer the responder's remotePeer names.
Setups ==
    [cached : Keys \cup {NoKey}, static : Keys, identity : Peers,
     responderFound : Keys \cup {NoKey}, initiatorExpected : BOOLEAN]

InitPair ==
    /\ Fresh
    /\ setup \in Setups

Other(s) == IF s = "initiator" THEN "responder" ELSE "initiator"

Msg(type, to, identity) == [type |-> type, to |-> to, identity |-> identity]

NoFrame == Msg("undefined", NoKey, "nobody")

\* The phases in which an end reads a frame off the duplex.
ReadsFrame(s, q) ==
    IF s = "initiator" THEN q \in {"ik_stage1", "xx_exchange"}
    ELSE q \in {"ik_stage0", "fb_finish"}

\* The fallback phase that takes initialMsg in place of a frame.
UsesHeld(s, q) == q = (IF s = "initiator" THEN "fb_exchange" ELSE "fb_propose")

\* The frame an end writes in a phase, NoFrame when it writes none.
WritesFrame(s, q) ==
    IF s = "initiator"
    THEN CASE q = "ik_stage0" -> Msg("IK1", setup.cached, "nobody")
           [] q = "xx_propose" -> Msg("XX1", NoKey, "nobody")
           [] q \in {"xx_finish", "fb_finish"} -> Msg("XX3", NoKey, "nobody")
           [] OTHER -> NoFrame
    ELSE CASE q = "ik_stage1" -> Msg("IK2", NoKey, setup.identity)
           [] q = "fb_exchange" -> Msg("XX2", NoKey, setup.identity)
           [] OTHER -> NoFrame

\* What the phase works on: the frame read, or the bytes held.
InputOf(s, q) ==
    IF ReadsFrame(s, q) THEN Head(wire[s])
    ELSE IF UsesHeld(s, q) THEN sides[s].held
    ELSE NoFrame

InputReady(s, q) == ReadsFrame(s, q) => wire[s] # <<>>

\* Whether the phase can process its input: the frame is the one the pattern
\* expects, it decrypts, and the identity in its payload is the expected one.
Acceptable(s, q, m) ==
    IF s = "initiator"
    THEN CASE q = "ik_stage1" -> m.type = "IK2" /\ m.identity = DialedPeer
           [] q \in {"xx_exchange", "fb_exchange"} ->
                  m.type = "XX2" /\ m.identity = DialedPeer
           [] OTHER -> TRUE
    ELSE CASE q = "ik_stage0" ->
                  m.type = "IK1" /\ m.to = setup.static /\ setup.initiatorExpected
           [] q = "fb_propose" -> m.type \in {"IK1", "XX1"}
           [] q = "fb_finish" -> m.type = "XX3" /\ setup.initiatorExpected
           [] OTHER -> TRUE

PairAttempt(pattern) == [pattern |-> pattern, status |-> "running"]

EndLast(a, st) == [a EXCEPT ![Len(a)].status = st]

\* The duplex after the phase q of end s: the frame read is gone, the frame
\* written is on its way to the other end.
WireAfter(s, q) ==
    LET taken == IF ReadsFrame(s, q) THEN [wire EXCEPT ![s] = Tail(wire[s])] ELSE wire
    IN  IF WritesFrame(s, q) = NoFrame THEN taken
        ELSE [taken EXCEPT ![Other(s)] = Append(taken[Other(s)], WritesFrame(s, q))]

\* Noise.performHandshake at one end
PDispatch(s) ==
    /\ sides[s].pc = "start"
    /\ LET isInitiator == s = "initiator"
           foundRemoteStaticKey ==
               IF isInitiator THEN setup.cached ELSE setup.responderFound
       IN  sides' = [sides EXCEPT ![s] =
             IF TryIK(TRUE, isInitiator, foundRemoteStaticKey)
             THEN IF StaticKeyMissing(foundRemoteStaticKey)
                  THEN [@ EXCEPT !.pc = "failed"]
                  ELSE [@ EXCEPT !.pc = "ik_stage0", !.attempts = <<PairAttempt("IK")>>]
             ELSE [@ EXCEPT !.pc = "xx_propose", !.attempts = <<PairAttempt("XX")>>]]
    /\ UNCHANGED <<setup, wire>>
    /\ UNCHANGED <<handshakeVars, metrics, sent, log, streamVars>>

\* A phase of end s succeeds and the driver goes on to the next await.
PAdvance(s, from, to) ==
    /\ sides[s].pc = from
    /\ InputReady(s, from)
    /\ Acceptable(s, from, InputOf(s, from))
    /\ sides' = [sides EXCEPT ![s].pc = to,
                              ![s].attempts = IF to = "done" THEN EndLast(@, "ok") ELSE @]
    /\ wire' = WireAfter(s, from)
    /\ UNCHANGED setup
    /\ UNCHANGED <<handshakeVars, metrics, sent, log, streamVars>>

PIKStage0(s) ==
    /\ sides[s].pc = "ik_stage0"
    /\ PAdvance(s, "ik_stage0", "ik_stage1")

PIKStage1(s) ==
    /\ sides[s].pc = "ik_stage1"
    /\ PAdvance(s, "ik_stage1", "done")

\* catch (e) of performIKHandshake: XXfallback with e.initialMsg
PIKFailed(s) ==
    /\ sides[s].pc \in {"ik_stage0", "ik_stage1"}
    /\ ReadsFrame(s, sides[s].pc)
    /\ wire[s] # <<>>
    /\ ~Acceptable(s, sides[s].pc, Head(wire[s]))
    /\ sides' = [sides EXCEPT ![s] =
                    [pc |-> "fb_propose",
                     attempts |-> Append(EndLast(sides[s].attempts, "failed"),
                                         PairAttempt("XXfallback")),
                     held |-> Head(wire[s])]]
    /\ wire' = [wire EXCEPT ![s] = Tail(wire[s])]
    /\ UNCHANGED setup
    /\ UNCHANGED <<handshakeVars, metrics, sent, log, streamVars>>

PFBPropose(s) ==
    /\ sides[s].pc = "fb_propose"
    /\ PAdvance(s, "fb_propose", "fb_exchange")

\* Variant: finish() is not awaited.
PFBExchangeSkippingFinish(s) ==
    /\ sides[s].pc = "fb_exchange"
    /\ PAdvance(s, "fb_exchange", "done")

PFBExchange(s) ==
    /\ sides[s].pc = "fb_exchange"
    /\ PAdvance(s, "fb_exchange", "fb_finish")

PFBFinish(s) ==
    /\ sides[s].pc = "fb_finish"
    /\ PAdvance(s, "fb_finish", "done")

PXXPropose(s) ==
    /\ sides[s].pc = "xx_propose"
    /\ PAdvance(s, "xx_propose", "xx_exchange")

PXXExchange(s) ==
    /\ sides[s].pc = "xx_exchange"
    /\ PAdvance(s, "xx_exchange", "xx_finish")

PXXFinish(s) ==
    /\ sides[s].pc = "xx_finish"
    /\ PAdvance(s, "xx_finish", "done")

\* catch (e) of the XX and XXfallback drivers: the error goes to the caller
PFailed(s) ==
    /\ sides[s].pc \in {"fb_propose", "fb_exchange", "fb_finish",
                        "xx_propose", "xx_exchange", "xx_finish"}
    /\ InputReady(s, sides[s].pc)
    /\ ~Acceptable(s, sides[s].pc, InputOf(s, sides[s].pc))
    /\ sides' = [sides EXCEPT ![s].pc = "failed",
                              ![s].attempts = EndLast(@, "failed")]
    /\ wire' = IF ReadsFrame(s, sides[s].pc)
               THEN [wire EXCEPT ![s] = Tail(wire[s])] ELSE wire
    /\ UNCHANGED setup
    /\ UNCHANGED <<handshakeVars, metrics, sent, log, streamVars>>

NextPair ==
    \E s \in Sides :
        \/ PDispatch(s)
        \/ PIKStage0(s)
        \/ PIKStage1(s)
        \/ PIKFailed(s)
        \/ PFBPropose(s)
        \/ PFBExchange(s)
        \/ PFBFinish(s)
        \/ PXXPropose(s)
        \/ PXXExchange(s)
        \/ PXXFinish(s)
        \/ PFailed(s)

SpecPair == InitPair /\ [][NextPair]_vars

----------------------------------------------------------------------------
\* Properties

\* The step in which performHandshake of call c selects its pattern (or throws).
Dispatches(c) == pc[c] = "performHandshake" /\ pc'[c] # "performHandshake"

\* Call c has gone past the pattern selection.
Dispatched(c) == pc[c] \notin {"idle", "performHandshake"}

\* The step in which the XX driver of call c returns its handshake.
XXCompletes(c) == pc[c] = "xx_finish" /\ pc'[c] = "handshake_done"

\* C1: when secureOutbound / secureInbound returns {conn, remotePeer}, the
\* returned remotePeer denotes the identity the handshake authenticated; a call
\* whose supplied remote identity differs from the authenticated one returns
\* nothing (no result, no secured duplex).
C1_ReturnedPeerIsAuthenticated ==
    \A c \in Calls :
        /\ result[c].status = "ok" =>
              /\ result[c].remotePeer \in PeerIds
              /\ PeerOf(result[c].remotePeer) = AuthenticatedPeer(c)
        /\ (pc[c] # "idle" /\ PeerOf(params[c].remotePeer) # AuthenticatedPeer(c)) =>
              (result[c].status # "ok" /\ ~result[c].conn /\ pc[c] # "returned")

\* A responder came back with a secured duplex and the caller's PeerId.
C1_Witness ==
    \E c \in Calls :
        /\ result[c].status = "ok"
        /\ result[c].conn
        /\ ~params[c].isInitiator
        /\ result[c].remotePeer = "a2"

\* C2: with useNoisePipes = false a call only ever builds an XX handshake,
\* whatever the cache holds: no IK and no XXfallback attempt is started.
C2_NoPipesOnlyXX ==
    \A c \in Calls :
        ~params[c].useNoisePipes =>
            /\ \A i \in 1..Len(attempts[c]) : attempts[c][i].pattern = "XX"
            /\ (Dispatched(c) /\ params[c].remotePeer # NoPeer) => Len(attempts[c]) = 1

\* A call without noise pipes completed XX although the cache held a key for
\* its remote PeerId.
C2_Witness ==
    \E c \in Calls :
        /\ ~params[c].useNoisePipes
        /\ found[c] # NoKey
        /\ pc[c] = "returned"
        /\ Patterns(c) = <<"XX">>

C4_ResponderAlwaysStartsIK ==
    \A c \in Calls :
        (Dispatched(c) /\ ~params[c].isInitiator /\ params[c].useNoisePipes) =>
            (Len(attempts[c]) >= 1 /\ attempts[c][1].pattern = "IK")

\* C5: after a successful XX handshake with useNoisePipes = true, the next
\* initiator dispatch (noise pipes on) to the same peer, with no reset in
\* between, selects IK.
C5_XXThenIK ==
    [][\A c \in Calls :
        (/\ Dispatches(c)
         /\ params[c].isInitiator
         /\ params[c].useNoisePipes
         /\ \E p \in xxSince : PeerOf(p) = PeerOf(params[c].remotePeer)) =>
            Patterns(c)' = <<"IK">>]_vars

\* C6: when an XX handshake completes, the entry written (noise pipes on) is
\* the remote static key of that handshake, under the caller's PeerId, which
\* denotes the identity the handshake authenticated; no other entry changes.
C6_StoredKeyIsAuthenticated ==
    [][\A c \in Calls :
        XXCompletes(c) =>
            IF params[c].useNoisePipes
            THEN /\ LoadFrom(cache', params[c].remotePeer) = RemoteStaticKey(c)
                 /\ PeerOf(params[c].remotePeer) = AuthenticatedPeer(c)
                 /\ \A p \in PeerIds \ {params[c].remotePeer} : cache'[p] = cache[p]
            ELSE cache' = cache]_vars

\* An XX handshake with noise pipes has completed and its key is in the cache
\* under the caller's PeerId.
C6_Witness ==
    \E c \in Calls :
        /\ pc[c] = "handshake_done"
        /\ params[c].useNoisePipes
        /\ Patterns(c) = <<"XX">>
        /\ cache[params[c].remotePeer] = RemoteStaticKey(c)

\* C7: only a successful XX handshake writes the cache: every other step of a
\* call (a failing phase, every IK and XXfallback step, dispatch, return)
\* leaves every entry unchanged.
C7_OnlyXXSuccessWrites ==
    [][\A c \in Calls :
        (pc'[c] # pc[c] /\ ~XXCompletes(c)) => cache' = cache]_vars

\* An XXfallback handshake succeeded and the cache entry of its remote PeerId
\* is still not the remote static key of that handshake.
C7_Witness ==
    \E c \in Calls :
        /\ Patterns(c) = <<"IK", "XXfallback">>
        /\ attempts[c][2].status = "ok"
        /\ cache[params[c].remotePeer] # RemoteStaticKey(c)

\* C8: a handshake in the responder role never looks up the cache, whatever
\* useNoisePipes is.
C8_ResponderNeverReads ==
    \A c \in Calls :
        (pc[c] # "idle" /\ ~params[c].isInitiator) => cacheReads[c] = 0

\* C9: XXfallback is started only after an IK attempt of the same call has
\* failed, at most once per call, and nothing is attempted after it.
C9_FallbackOnceAfterIK ==
    \A c \in Calls :
        /\ Patterns(c) \in {<<>>, <<"XX">>, <<"IK">>, <<"IK", "XXfallback">>}
        /\ Len(attempts[c]) = 2 => attempts[c][1].status = "failed"
        /\ \A i \in 1..Len(attempts[c]) :
              attempts[c][i].status = "running" => i = Len(attempts[c])

\* The fallback of a call failed too, and the call ended there.
C9_Witness ==
    \E c \in Calls :
        /\ Patterns(c) = <<"IK", "XXfallback">>
        /\ attempts[c][2].status = "failed"
        /\ pc[c] = "failed"

\* C10: a failed XX or XXfallback attempt is the last attempt of its call and
\* the call ends with an error; a secured duplex exists only for a call whose
\* last handshake completed.
C10_XXFailureSurfaces ==
    \A c \in Calls :
        /\ \A i \in 1..Len(attempts[c]) :
              (attempts[c][i].pattern \in {"XX", "XXfallback"}
                  /\ attempts[c][i].status = "failed") =>
                  /\ i = Len(attempts[c])
                  /\ pc[c] = "failed"
                  /\ result[c] = Thrown
        /\ result[c].conn =>
              /\ Len(attempts[c]) >= 1
              /\ Current(c).status = "ok"
              /\ pc[c] = "returned"

\* An XX attempt failed and the caller got the error.
C10_Witness ==
    \E c \in Calls :
        /\ Patterns(c) = <<"XX">>
        /\ attempts[c][1].status = "failed"
        /\ result[c] = Thrown

\* The attempts of call c that are still running.
Running(c) == {i \in 1..Len(attempts[c]) : attempts[c][i].status = "running"}

\* C12: on the duplex of a call at most one handshake attempt is active; an
\* XXfallback attempt exists only once the IK attempt before it has ended
\* (failed), and it drives the same connection; no other call drives it.
C12_OneAttemptAtATime ==
    \A c \in Calls :
        /\ Cardinality(Running(c)) <= 1
        /\ \A i \in 1..Len(attempts[c]) :
              /\ attempts[c][i].connection = ConnectionOf(c)
              /\ attempts[c][i].pattern = "XXfallback" =>
                    /\ i > 1
                    /\ attempts[c][i - 1].pattern = "IK"
                    /\ attempts[c][i - 1].status = "failed"
                    /\ attempts[c][i].connection = attempts[c][i - 1].connection
        /\ \A d \in Calls \ {c} : ConnectionOf(d) # ConnectionOf(c)

\* The fallback of a call is running, after its IK attempt.
C12_Witness ==
    \E c \in Calls :
        /\ Patterns(c) = <<"IK", "XXfallback">>
        /\ attempts[c][2].status = "running"
        /\ pc[c] = "fb_exchange"

C16_FallbackHasInitialMsg ==
    \A c \in Calls :
        \A i \in 1..Len(attempts[c]) :
            attempts[c][i].pattern = "XXfallback" =>
                attempts[c][i].initialMsg # NoMsg

\* The position a phase is entered from.
EnteredFrom(q) ==
    CASE q = "ik_stage0" -> {"performHandshake"}
      [] q = "ik_stage1" -> {"ik_stage0"}
      [] q = "fb_propose" -> {"ik_stage0", "ik_stage1"}
      [] q = "fb_exchange" -> {"fb_propose"}
      [] q = "fb_finish" -> {"fb_exchange"}
      [] q = "xx_propose" -> {"performHandshake"}
      [] q = "xx_exchange" -> {"xx_propose"}
      [] q = "xx_finish" -> {"xx_exchange"}
      [] q = "handshake_done" -> {"ik_stage1", "fb_finish", "xx_finish"}
      [] q = "returned" -> {"handshake_done"}

\* C17: XX and XXfallback run propose, exchange, finish in that order and IK
\* runs stage0 then stage1; a phase is entered only from the phase before it
\* having succeeded; the handshake is returned only out of the last phase, and
\* a call writes the cache only in the step that ends XX's finish.
C17_PhasesInOrder ==
    [][\A c \in Calls :
        /\ (pc'[c] # pc[c] /\ pc'[c] \notin {"idle", "performHandshake", "failed"}) =>
              /\ pc[c] \in EnteredFrom(pc'[c])
              /\ (pc'[c] \in {"ik_stage1", "fb_exchange", "fb_finish",
                              "xx_exchange", "xx_finish"}) =>
                    (attempts'[c] = attempts[c] /\ Current(c).status = "running")
              /\ pc'[c] = "handshake_done" =>
                    (Current(c).status = "running" /\ Current(c)'.status = "ok")
        /\ (pc'[c] # pc[c] /\ cache' # cache) =>
              (pc[c] = "xx_finish" /\ pc'[c] = "handshake_done")]_vars

\* An XX handshake went through its three phases and was returned.
C17_Witness ==
    \E c \in Calls :
        /\ pc[c] = "returned"
        /\ Patterns(c) = <<"XX">>
        /\ attempts[c][1].status = "ok"
        /\ ~params[c].isInitiator

\* C18: after resetStorage every lookup returns no key until the next store,
\* which a call only performs on a successful XX handshake; an initiator with
\* useNoisePipes = true dispatched in between selects XX and not IK.
C18_ResetClearsAll ==
    /\ [](resetDone => \A p \in PeerIds : LoadFrom(cache, p) = NoKey)
    /\ [][\A c \in Calls :
            /\ (resetDone /\ Dispatches(c) /\ params[c].isInitiator
                  /\ params[c].useNoisePipes) => Patterns(c)' = <<"XX">>
            /\ (resetDone /\ ~resetDone' /\ pc'[c] # pc[c]) =>
                  (XXCompletes(c) /\ params[c].useNoisePipes)]_vars

\* After a reset of a filled cache an initiator with noise pipes is in XX.
C18_Witness ==
    \E c \in Calls :
        /\ resetDone
        /\ params[c].isInitiator
        /\ params[c].useNoisePipes
        /\ pc[c] = "xx_propose"

\* C19: with useNoisePipes = false a successful XX handshake leaves the cache
\* as it was: a PeerId that missed before still misses, so a later initiator
\* with useNoisePipes = true still does not try IK for it.
C19_NoPipesNoStore ==
    [][\A c \in Calls :
        (XXCompletes(c) /\ ~params[c].useNoisePipes) =>
            /\ cache' = cache
            /\ LoadFrom(cache, params[c].remotePeer) = NoKey =>
                  /\ LoadFrom(cache', params[c].remotePeer) = NoKey
                  /\ ~TryIK(TRUE, TRUE, LoadFrom(cache', params[c].remotePeer))]_vars

\* An XX handshake without noise pipes completed and the cache has no entry
\* for its remote PeerId.
C19_Witness ==
    \E c \in Calls :
        /\ pc[c] = "handshake_done"
        /\ ~params[c].useNoisePipes
        /\ params[c].isInitiator
        /\ Patterns(c) = <<"XX">>
        /\ cache[params[c].remotePeer] = NoKey

\* The key of the most recent store for the peer of PeerId p in the operations
\* l, none if a reset came after it or there was no such store.
RECURSIVE LastStored(_, _)
LastStored(l, p) ==
    IF l = <<>> THEN NoKey
    ELSE LET e == l[Len(l)] IN
         IF e.op = "reset" THEN NoKey
         ELSE IF e.op = "store" /\ PeerOf(e.peerId) = PeerOf(p) THEN e.key
         ELSE LastStored(SubSeq(l, 1, Len(l) - 1), p)

\* C20: over any sequence of store, load and resetStorage, load(p) returns the
\* key of the most recent store for peer p since the last reset, or no key if
\* there was none; a store for p changes the entry of no other peer and a load
\* changes nothing.
C20_CacheIsAMap ==
    /\ [](\A i \in 1..Len(log) :
            log[i].op = "load" =>
                log[i].key = LastStored(SubSeq(log, 1, i - 1), log[i].peerId))
    /\ [][/\ \A p \in PeerIds, k \in Keys :
                KCStore(p, k) =>
                    \A q \in PeerIds : PeerOf(q) # PeerOf(p) => cache'[q] = cache[q]
          /\ \A p \in PeerIds : KCLoad(p) => cache' = cache]_vars

\* The counters a Noise instance with a metrics registry must show for the
\* calls it made as initiator.
XXSuccesses ==
    Cardinality({c \in Calls : /\ pc[c] = "returned"
                               /\ params[c].isInitiator
                               /\ Patterns(c) = <<"XX">>})

\* C14: on the initiator of a successful handshake the handshake-success
\* counter was incremented exactly once and the handshake-error counter never;
\* after n plaintext packets sent, the encrypted-packets counter was
\* incremented n times and the decrypt-errors counter not at all.
C14_MetricsCounted ==
    \A c \in Calls :
        (/\ pc[c] = "returned"
         /\ params[c].isInitiator
         /\ Patterns(c) = <<"XX">>) =>
            /\ metrics.xxHandshakeSuccesses = XXSuccesses
            /\ metrics.xxHandshakeErrors = 0
            /\ metrics.encryptedPackets = sent[c]
            /\ metrics.decryptErrors = 0

IsCiphertext(t) == t.type = "ciphertext"

\* The plaintext units of one direction, delivered or still on the network.
UnitsSeen ==
    LET f == SelectSeq(network, IsCiphertext)
    IN  delivered \o [n \in 1..Len(f) |-> f[n].unit]

Range(f) == {f[i] : i \in DOMAIN f}

PairPatterns(s) ==
    [i \in 1..Len(sides[s].attempts) |-> sides[s].attempts[i].pattern]

\* The responder was presented with an IK first message it could not decrypt.
CannotDecryptIK ==
    /\ Len(sides["responder"].attempts) = 2
    /\ sides["responder"].held.type = "IK1"
    /\ sides["responder"].held.to # setup.static

\* The responder's secureInbound completed, its handshake being XXfallback.
ResponderViaFallback ==
    /\ sides["responder"].pc = "done"
    /\ PairPatterns("responder") = <<"IK", "XXfallback">>

\* Neither end can take a step any more: each has ended or waits for a frame.
PairQuiet ==
    \A s \in Sides :
        \/ sides[s].pc \in {"done", "failed"}
        \/ ReadsFrame(s, sides[s].pc) /\ wire[s] = <<>>

\* C11 as stated: when the responder cannot decrypt the initiator's IK first
\* message, once both ends have come to rest the responder has completed via
\* XXfallback if and only if the initiator also transitioned to XXfallback.
C11_FallbackIff ==
    (CannotDecryptIK /\ PairQuiet) =>
        (ResponderViaFallback <=> "XXfallback" \in Range(PairPatterns("initiator")))

\* C11, amended: when the responder cannot decrypt the initiator's IK first
\* message, it completes via XXfallback only if the initiator also transitioned
\* to XXfallback and completed it (message 3 was written).
C11_ResponderFallbackNeedsInitiator ==
    (CannotDecryptIK /\ ResponderViaFallback) =>
        /\ PairPatterns("initiator") = <<"IK", "XXfallback">>
        /\ sides["initiator"].attempts[2].status = "ok"
        /\ sides["initiator"].pc = "done"

\* Both ends completed via XXfallback after an IK message the responder could
\* not decrypt.
C11_Witness ==
    /\ CannotDecryptIK
    /\ ResponderViaFallback
    /\ sides["initiator"].pc = "done"
    /\ PairPatterns("initiator") = <<"IK", "XXfallback">>

====
